---------------------------- MODULE Spec2Model ----------------------------
(***************************************************************************)
(* The satellite pipeline of HedgeMindAI: PLAN (satellite/planner.py),     *)
(* OBSERVE (satellite/executor.py, satellite/features.py) and EXPLAIN      *)
(* (satellite/summarizer.py), sequenced by satellite/router.py.            *)
(*                                                                         *)
(* Representation.                                                         *)
(*   - An Optional value is a set: None is {} and Some(x) is {x}.          *)
(*   - The industry string is a sequence of one-character strings, so that *)
(*     str.strip() and str.lower() are computed character by character.    *)
(*   - Free text (notes, gaps) is a sequence of text fragments; the empty  *)
(*     Python string is the empty sequence and + is concatenation.         *)
(*   - The decision and verification functions, the token endpoint and the *)
(*     imagery endpoint are the environment: each call draws its outcome   *)
(*     from a small set.                                                   *)
(*   - Fractions are scaled integers; the units are given with the         *)
(*     feature functions. Confidences are in 1/100.                        *)
(***************************************************************************)
EXTENDS Integers, Sequences, FiniteSets, TLC

VARIABLES
    pc,          \* position of run_satellite_module / execute_plan
    ticker,      \* argument of run_satellite_module
    industry,    \* argument of run_satellite_module (Optional string)
    raw,         \* outcome of the decision function inside build_plan
    plan,        \* the ObservationPlan build_plan returned
    exec_plan,   \* the plan execute_plan received
    cur,         \* execute_plan's loop position: target, sensor, feature index
    token,       \* compute_ndvi_change_for_target: the bearer token
    bbox,        \* compute_ndvi_change_for_target: the bounding box
    stack_curr,  \* samples fetched for the current window
    stack_prev,  \* samples fetched for the previous window
    result,      \* the ObservationResult under construction / returned
    sum_in,      \* the ObservationResult summarize received
    obs_json,    \* the JSON document summarize made of that result
    verdict,     \* outcome of the verification function inside summarize
    out,         \* what run_satellite_module returned
    error,       \* the exception that left run_satellite_module, if any
    calls,       \* how often each external function was called
    log,         \* stage entries and exits, in order
    qcall,       \* quality_from_valid_ratio called on its own: arguments, result
    news,        \* fetch_news_articles: arguments, provider response, loop state
    ext          \* _extract_json called on its own: the text and what is returned

vars == <<pc, ticker, industry, raw, plan, exec_plan, cur, token, bbox,
          stack_curr, stack_prev, result, sum_in, obs_json, verdict, out, error,
          calls, log, qcall, news, ext>>

-----------------------------------------------------------------------------
(* Bounds of the model.                                                    *)

\* the longest targets list a decision payload carries
MaxLLMTargets == 3

\* how far the valid ratios tried lie outside [0, 1], in 1/200
MaxRatioExcess == 100

\* how far the scene ages tried lie outside [0, 14], in days
MaxAgeExcess == 7

\* the longest provider response and the largest max_articles tried
MaxNewsItems == 3

\* the longest text, and the longest fenced body, handed to _extract_json
MaxTextLen == 4

-----------------------------------------------------------------------------
(* Small helpers.                                                          *)

None == {}

Some(x) == {x}

TheValue(o) == CHOOSE x \in o : TRUE

MinOf(S) == CHOOSE x \in S : \A y \in S : x <= y

MaxOf(S) == CHOOSE x \in S : \A y \in S : x >= y

SeqsUpTo(S, n) == UNION {[1..k -> S] : k \in 0..n}

-----------------------------------------------------------------------------
(* Strings: str.strip() and str.lower().                                   *)

Uppers == <<"A","B","C","D","E","F","G","H","I","J","K","L","M",
            "N","O","P","Q","R","S","T","U","V","W","X","Y","Z">>

Lowers == <<"a","b","c","d","e","f","g","h","i","j","k","l","m",
            "n","o","p","q","r","s","t","u","v","w","x","y","z">>

Whitespace == {" ", "\t", "\n", "\r"}

LowerChar(c) ==
    IF \E i \in 1..Len(Uppers) : Uppers[i] = c
    THEN Lowers[CHOOSE i \in 1..Len(Uppers) : Uppers[i] = c]
    ELSE c

StrLower(s) == [i \in 1..Len(s) |-> LowerChar(s[i])]

StrStrip(s) ==
    LET keep == {i \in 1..Len(s) : s[i] \notin Whitespace}
    IN  IF keep = {} THEN <<>> ELSE SubSeq(s, MinOf(keep), MaxOf(keep))

-----------------------------------------------------------------------------
(* planner.py: the skip list.                                              *)

INDUSTRY_NO_NEED_SATELLITE ==
    { <<"i","n","t","e","r","n","e","t">>,
      <<"s","o","f","t","w","a","r","e">>,
      <<"s","a","a","s">>,
      <<"f","i","n","t","e","c","h">>,
      <<"m","e","d","i","a">>,
      <<"a","d","v","e","r","t","i","s","i","n","g">>,
      <<"s","o","c","i","a","l"," ","m","e","d","i","a">>,
      <<"g","a","m","i","n","g"," ","(","p","u","r","e"," ",
        "s","o","f","t","w","a","r","e",")">>,
      <<"p","a","y","m","e","n","t","s"," ","(","p","u","r","e"," ",
        "s","o","f","t","w","a","r","e",")">> }

-----------------------------------------------------------------------------
(* schemas.py: the data model.                                             *)

SensorType == {"S2", "S1", "VIIRS", "MODIS"}

NDVI_FEATURE == "NDVI_mean_30d_vs_prev30d"

SensorSpec(type, features) == [type |-> type, features |-> features]

\* Target: radius_km defaults to 5.0 (schemas.py:75-78); all geometry optional
Target(name, lat, lon, radius_km, polygon_geojson, sensors) ==
    [name |-> name, lat |-> lat, lon |-> lon, radius_km |-> radius_km,
     polygon_geojson |-> polygon_geojson, sensors |-> sensors,
     reason |-> "r"]

ObservationPlan(t, ind, use, targets, fallbacks, notes) ==
    [ticker |-> t, industry |-> ind, use_satellite |-> use,
     targets |-> targets, fallbacks |-> fallbacks, notes |-> notes]

\* now.isoformat() of executor.py:86 and 129, kept symbolic
NowIso == "now.isoformat()"

\* as_of and note are the same for every Observation the executor builds
Observation(target, sensor, metric, value, quality, provenance) ==
    [target |-> target, sensor |-> sensor, metric |-> metric,
     value |-> value, quality |-> quality, as_of |-> NowIso,
     provenance |-> provenance,
     note |-> "S2 NDVI over buffered bbox; simple 2-sample proxy for 30d windows"]

\* ObservationResult(ticker=...): the lists and the notes default to empty
ObservationResult(t) ==
    [ticker |-> t, observations |-> <<>>, gaps |-> <<>>,
     summary_notes |-> <<>>]

-----------------------------------------------------------------------------
(* Inputs: what the caller passes and what the decision function answers.  *)

Tickers == {"TSLA"}

W_saas == <<"s","a","a","s">>

W_software == <<"s","o","f","t","w","a","r","e">>

\* the industry arguments tried: absent, empty, skip-list entries in several
\* spellings, and industries outside the skip list
IndustryArgs ==
    { None,
      Some(<<>>),
      Some(W_saas),
      Some(<<" ","S","a","a","S","\t">>),
      Some(<<"S","o","c","i","a","l"," ","M","E","D","I","A","\n">>),
      Some(<<"A","g","r","i","c","u","l","t","u","r","e">>),
      Some(W_software \o <<" ","c","o","m","p","a","n","y">>) }

S2_NDVI == SensorSpec("S2", <<NDVI_FEATURE>>)

\* a site given as a point with a radius, asking for the implemented feature
T_site == Target("Giga Austin", Some(30), Some(-97), Some(4), None, <<S2_NDVI>>)

\* a name only: neither (lat, lon) nor a polygon
T_hint == Target("Cocoa belt", None, None, Some(5), None, <<S2_NDVI>>)

\* a polygon; the implemented feature comes last among roadmap features
T_port == Target("Port of LA", None, None, Some(5), Some("polygon"),
                 << SensorSpec("S1", <<"SAR_VV_delta_30d">>),
                    SensorSpec("S2", <<"NDWI_ship_count_wow", NDVI_FEATURE>>) >>)

\* a point that asks for roadmap features only
T_city == Target("Shenzhen", Some(22), Some(114), None, None,
                 << SensorSpec("VIIRS", <<"night_lights_pct_delta_30d">>) >>)

\* a target whose sensor type is outside the SensorType literal
T_bad == Target("Mine", Some(1), Some(2), Some(5), None,
                << SensorSpec("LANDSAT", <<NDVI_FEATURE>>) >>)

\* a name only, asking for the NDVI feature of the radar sensor and for a
\* roadmap feature of the optical one
T_road == Target("Rail yard", None, None, None, None,
                 << SensorSpec("S1", <<NDVI_FEATURE>>),
                    SensorSpec("S2", <<"NDWI_ship_count_wow">>) >>)

\* a polygon that lists the implemented feature under two S2 sensor specs,
\* with roadmap features in between
T_farm == Target("Corn belt", None, None, None, Some("polygon"),
                 << S2_NDVI,
                    SensorSpec("S1", <<"SAR_VV_delta_30d">>),
                    SensorSpec("S2", <<"NDWI_ship_count_wow", NDVI_FEATURE>>) >>)

TargetPresets == {T_site, T_hint, T_port, T_city}

PlanKeys == {"ticker", "industry", "use_satellite", "targets", "fallbacks", "notes"}

\* what the payload says beside use_satellite and targets
PlainMeta == [ticker |-> "TSLA", industry |-> None, fallbacks |-> <<>>, notes |-> <<>>]

\* a payload that names another instrument and a skip-list industry, and
\* carries fallbacks and notes
OtherMeta ==
    [ticker |-> "MSFT", industry |-> Some(W_software), fallbacks |-> <<T_site>>,
     notes |-> <<"LLM notes.">>]

NoPlan == ObservationPlan("", None, FALSE, <<>>, <<>>, <<>>)

\* an outcome of one call of the decision function: it raises (exc), returns
\* text that is no JSON, or returns a JSON object with the keys `keys`
LLMRaise == [kind |-> "raise", exc |-> "TimeoutError", keys |-> {}, v |-> NoPlan]

LLMText == [kind |-> "text", exc |-> "", keys |-> {}, v |-> NoPlan]

LLMObject(keys, v) == [kind |-> "object", exc |-> "", keys |-> keys, v |-> v]

DecisionOutcomes ==
    { LLMRaise, LLMText }
    \cup { LLMObject(PlanKeys,
              ObservationPlan(PlainMeta.ticker, PlainMeta.industry, use, tg,
                              PlainMeta.fallbacks, PlainMeta.notes)) :
              use \in BOOLEAN, tg \in SeqsUpTo(TargetPresets, MaxLLMTargets) }
    \cup { LLMObject(PlanKeys,
              ObservationPlan(OtherMeta.ticker, OtherMeta.industry, use, tg,
                              OtherMeta.fallbacks, OtherMeta.notes)) :
              use \in BOOLEAN, tg \in SeqsUpTo({T_site}, MaxLLMTargets) }
    \* optional keys left out: the schema's defaults apply
    \cup { LLMObject({"ticker", "use_satellite"},
              ObservationPlan("TSLA", None, use, <<>>, <<>>, <<>>)) : use \in BOOLEAN }
    \* a required key left out
    \cup { LLMObject(PlanKeys \ {"use_satellite"},
              ObservationPlan("TSLA", None, TRUE, <<T_site>>, <<>>, <<>>)) }
    \* a value outside the schema
    \cup { LLMObject(PlanKeys,
              ObservationPlan("TSLA", None, TRUE, <<T_site, T_bad>>, <<>>, <<>>)) }

-----------------------------------------------------------------------------
(* planner.py: build_plan.                                                 *)

ValidTarget(t) == \A i \in 1..Len(t.sensors) : t.sensors[i].type \in SensorType

\* ObservationPlan.model_validate_json accepts the payload
SchemaValid(r) ==
    /\ r.kind = "object"
    /\ {"ticker", "use_satellite"} \subseteq r.keys
    /\ "targets" \in r.keys =>
          \A i \in 1..Len(r.v.targets) : ValidTarget(r.v.targets[i])
    /\ "fallbacks" \in r.keys =>
          \A i \in 1..Len(r.v.fallbacks) : ValidTarget(r.v.fallbacks[i])

\* the validated plan: absent optional keys take the field defaults
ParsedPlan(r) ==
    ObservationPlan(r.v.ticker,
                    IF "industry" \in r.keys THEN r.v.industry ELSE None,
                    r.v.use_satellite,
                    IF "targets" \in r.keys THEN r.v.targets ELSE <<>>,
                    IF "fallbacks" \in r.keys THEN r.v.fallbacks ELSE <<>>,
                    IF "notes" \in r.keys THEN r.v.notes ELSE <<>>)

\* a fallback that forgets the caller's industry
FallbackPlan_NoIndustry(tk, ind, note) == ObservationPlan(tk, None, FALSE, <<>>, <<>>, note)

\* the safe fallback of the two except branches
FallbackPlan(tk, ind, note) == ObservationPlan(tk, ind, FALSE, <<>>, <<>>, note)

\* planner.py:174-175: the most targets a plan keeps
MaxPlanTargets == 2

\* the guard without lower(): the comparison is case-sensitive
IndustryGuardFires_CaseSensitive(ind) ==
    /\ ind # None
    /\ TheValue(ind) # <<>>
    /\ StrStrip(TheValue(ind)) \in INDUSTRY_NO_NEED_SATELLITE

\* `industry and industry.strip().lower() in INDUSTRY_NO_NEED_SATELLITE`
IndustryGuardFires(ind) ==
    /\ ind # None
    /\ TheValue(ind) # <<>>
    /\ StrLower(StrStrip(TheValue(ind))) \in INDUSTRY_NO_NEED_SATELLITE

\* a guard that also reads the industry the plan itself names
ApplyIndustryGuard_ReadsPlanIndustry(p, ind) ==
    IF IndustryGuardFires(ind) \/ IndustryGuardFires(p.industry)
    THEN [p EXCEPT !.use_satellite = FALSE, !.targets = <<>>, !.fallbacks = <<>>,
                   !.notes = @ \o <<" Skipped due to industry.">>]
    ELSE p

ApplyIndustryGuard(p, ind) ==
    IF IndustryGuardFires(ind)
    THEN [p EXCEPT !.use_satellite = FALSE, !.targets = <<>>, !.fallbacks = <<>>,
                   !.notes = @ \o <<" Skipped due to industry.">>]
    ELSE p

\* the trim with the bound off by one
TrimTargets_OffByOne(p) ==
    IF Len(p.targets) > MaxPlanTargets + 1
    THEN [p EXCEPT !.targets = SubSeq(@, 1, MaxPlanTargets + 1),
                   !.notes = @ \o <<" Trimmed targets to 2.">>]
    ELSE p

TrimTargets(p) ==
    IF Len(p.targets) > MaxPlanTargets
    THEN [p EXCEPT !.targets = SubSeq(@, 1, MaxPlanTargets),
                   !.notes = @ \o <<" Trimmed targets to 2.">>]
    ELSE p

build_plan(tk, ind, r) ==
    IF r.kind = "raise"
    THEN FallbackPlan(tk, ind, <<"Planner call failed: ", r.exc>>)
    ELSE IF ~SchemaValid(r)
    THEN FallbackPlan(tk, ind, <<"Planner JSON parse error: ", "ValidationError">>)
    ELSE TrimTargets(ApplyIndustryGuard(ParsedPlan(r), ind))

-----------------------------------------------------------------------------
(* features.py and the arithmetic of compute_ndvi_change_for_target.       *)
(* Units: a sample's NDVI mean in 1/1000 and its valid ratio in 1/100; a   *)
(* window's mean in 1/2000 and its valid ratio in 1/200 (so that the mean  *)
(* of one or two samples is an integer); quality in 1/5600; the percent    *)
(* value in 1/100.                                                         *)

Abs(x) == IF x < 0 THEN -x ELSE x

Max2(a, b) == IF a >= b THEN a ELSE b

Min2(a, b) == IF a <= b THEN a ELSE b

\* round(n / d) to an integer, ties to even, d > 0
RoundHalfEven(n, d) ==
    LET q == n \div d
        r == n - q * d
    IN  IF 2 * r < d THEN q
        ELSE IF 2 * r > d THEN q + 1
        ELSE IF q % 2 = 0 THEN q ELSE q + 1

\* pct_change as the fraction num/den; 0.0 when prev == 0
pct_change(c, p) ==
    IF p = 0 THEN [num |-> 0, den |-> 1]
    ELSE [num |-> 100 * (c - p), den |-> Abs(p)]

\* round(x, 2), in 1/100
Round2(x) == RoundHalfEven(100 * x.num, x.den)

\* the blend without the outer clamp
quality_from_valid_ratio_NoClamp(valid_ratio, scene_age_days) ==
    14 * valid_ratio + 200 * Max2(0, 14 - scene_age_days)

\* valid_ratio in 1/200, scene_age_days in days, the result in 1/5600
quality_from_valid_ratio(valid_ratio, scene_age_days) ==
    LET q == 14 * valid_ratio + 200 * Max2(0, 14 - scene_age_days)
    IN  Max2(0, Min2(5600, q))

RECURSIVE SumSeq(_)
SumSeq(s) == IF s = <<>> THEN 0 ELSE Head(s) + SumSeq(Tail(s))

\* a fetched sample after _ndvi_mean: the masked NDVI mean (None is NaN: no
\* valid pixel) and the share of valid pixels
Sample(val, valid) == [val |-> val, valid |-> valid]

IsUsable(smp) == smp.val # None

\* the `if stack: ... else: ...` block of one window: (mean, valid)
WindowStats(stack) ==
    LET u == SelectSeq(stack, IsUsable)
        n == Len(u)
    IN  IF n = 0 THEN [mean |-> None, valid |-> 0]
        ELSE [mean  |-> Some(SumSeq([i \in 1..n |-> TheValue(u[i].val)]) * (2 \div n)),
              valid |-> SumSeq([i \in 1..n |-> u[i].valid]) * (2 \div n)]

\* a value of 0.0 where a window has no mean
NdviValue_ZeroForAbsent(c, p) ==
    IF c.mean # None /\ p.mean # None
    THEN Some(Round2(pct_change(TheValue(c.mean), TheValue(p.mean))))
    ELSE Some(0)

\* value = None unless both window means are numbers
NdviValue(c, p) ==
    IF c.mean # None /\ p.mean # None
    THEN Some(Round2(pct_change(TheValue(c.mean), TheValue(p.mean))))
    ELSE None

\* an Observation whose quality is taken from the previous window
NdviObservation_QualityOfPrevious(t, box, sc, sp) ==
    LET c == WindowStats(sc)
        p == WindowStats(sp)
    IN  Observation(t.name, "S2", NDVI_FEATURE, NdviValue(c, p),
                    quality_from_valid_ratio(p.valid, 0),
                    [bbox |-> box, samples_curr |-> Len(sc), samples_prev |-> Len(sp)])

\* the Observation compute_ndvi_change_for_target appends
NdviObservation(t, box, sc, sp) ==
    LET c == WindowStats(sc)
        p == WindowStats(sp)
    IN  Observation(t.name, "S2", NDVI_FEATURE, NdviValue(c, p),
                    quality_from_valid_ratio(c.valid, 0),
                    [bbox |-> box, samples_curr |-> Len(sc), samples_prev |-> Len(sp)])

-----------------------------------------------------------------------------
(* executor.py: geometry and the environment of the imagery provider.      *)

NoBbox == [kind |-> "none", lat |-> None, lon |-> None, r |-> None, of |-> None]

HasGeometry(t) == t.polygon_geojson # None \/ (t.lat # None /\ t.lon # None)

\* _bbox_from_target where it does not raise; the box is kept symbolic: the
\* polygon's envelope, or the circle of `radius_km or 5.0` around (lat, lon)
bbox_from_target(t) ==
    IF t.polygon_geojson # None
    THEN [kind |-> "envelope", lat |-> None, lon |-> None, r |-> None,
          of |-> t.polygon_geojson]
    ELSE [kind |-> "circle", lat |-> t.lat, lon |-> t.lon,
          r |-> IF t.radius_km = None \/ t.radius_km = Some(0)
                THEN Some(5) ELSE t.radius_km,
          of |-> None]

\* _auth_token: a credential is missing, the endpoint times out or answers
\* with an error status, or a token comes back
AuthOutcomes == {"ok", "no_credentials", "timeout", "http_error"}

ImgClear == Sample(Some(600), 100)

ImgMasked == Sample(None, 0)

Images == {ImgClear, ImgMasked}

\* one imagery request: a decodable 200 answer, a non-200 status, a transport
\* error raised by requests.post, a 200 answer tiff_read cannot decode
FetchOutcomes ==
    { [kind |-> "ok", img |-> i] : i \in Images }
    \cup { [kind |-> k, img |-> ImgMasked] : k \in {"http_error", "timeout", "bad_body"} }

\* images of several scenes: NDVI means 0.7, 0.5, 0 and -0.25 under clear
\* and half-clouded skies, beside the two above
NdviImages ==
    Images \cup { Sample(Some(700), 100), Sample(Some(500), 50),
                  Sample(Some(0), 100), Sample(Some(-250), 50) }

NdviFetchOutcomes ==
    { [kind |-> "ok", img |-> i] : i \in NdviImages }
    \cup { [kind |-> k, img |-> ImgMasked] : k \in {"http_error", "timeout", "bad_body"} }

\* a dispatch test that looks at the feature alone
Dispatchable_AnySensor(s, feat) == feat = NDVI_FEATURE

\* the dispatch test of execute_plan
Dispatchable(s, feat) == s.type = "S2" /\ feat = NDVI_FEATURE

-----------------------------------------------------------------------------
(* summarizer.py and the outputs of router.py.                             *)

SummaryKeys == {"headline", "bullets", "confidence", "attribution"}

NoCounts == [observations |-> 0, gaps |-> 0]

Payload(headline, bullets, confidence, attribution) ==
    [ticker |-> "MSFT", headline |-> headline, bullets |-> bullets,
     confidence |-> confidence, attribution |-> attribution,
     raw_counts |-> [observations |-> 7, gaps |-> 7]]

Bullets(n) == [i \in 1..n |-> <<"bullet">>]

NoPayload == Payload("", <<>>, 0, <<>>)

VerifyRaise == [kind |-> "raise", keys |-> {}, v |-> NoPayload]

VerifyText == [kind |-> "text", keys |-> {}, v |-> NoPayload]

VerifyObject(keys, v) == [kind |-> "object", keys |-> keys, v |-> v]

\* the verification function has not been called
NoVerdict == [kind |-> "none", keys |-> {}, v |-> NoPayload]

\* the outcomes of one call of the verification function
VerifyOutcomes ==
    { VerifyRaise, VerifyText }
    \cup { VerifyObject(SummaryKeys, Payload("Satellite: NDVI up", Bullets(n), 82, <<"S2">>)) :
              n \in {1, 2, 5} }
    \cup { VerifyObject(SummaryKeys, Payload("Satellite: NDVI up", Bullets(2), c, <<"S2">>)) :
              c \in {-10, 150} }
    \cup { VerifyObject(SummaryKeys \cup {"raw_counts", "ticker"},
                        Payload("Satellite: flat", Bullets(3), 40, <<>>)) }
    \cup { VerifyObject(SummaryKeys \ {"bullets"},
                        Payload("Satellite: NDVI up", <<>>, 82, <<"S2">>)) }

\* what run_satellite_module returns: a dict with the keys `keys`
Output(kind, keys, tk, headline, bullets, confidence, attribution, raw_counts) ==
    [kind |-> kind, keys |-> keys, ticker |-> tk, headline |-> headline,
     bullets |-> bullets, confidence |-> confidence, attribution |-> attribution,
     raw_counts |-> raw_counts]

NoOutput == Output("none", {}, "", "", <<>>, 0, <<>>, NoCounts)

\* a block whose bullet is the plan's notes as they are, empty or not
InapplicableBlock_NoDefault(tk, p) ==
    Output("block", {"ticker"} \cup SummaryKeys, tk, "Satellite not applicable",
           << p.notes >>, 99, <<>>, NoCounts)

\* the "not applicable" dict of the router
InapplicableBlock(tk, p) ==
    Output("block", {"ticker"} \cup SummaryKeys, tk, "Satellite not applicable",
           << IF p.notes # <<>> THEN p.notes
              ELSE <<"Pure software/internet industry; skipping satellite.">> >>,
           99, <<>>, NoCounts)

\* json.loads, the four subscripts and the SatelliteSummary constructor all
\* succeed: the text is a JSON object, the keys are there, confidence is in [0, 1]
SummaryBuilds(o) ==
    /\ o.kind = "object"
    /\ SummaryKeys \subseteq o.keys
    /\ o.v.confidence >= 0
    /\ o.v.confidence <= 100

\* a summary that takes the counters from the payload when it carries them
SummaryOutput_TrustsPayloadCounts(tk, o, res) ==
    Output("summary", {"ticker", "raw_counts"} \cup SummaryKeys, tk, o.v.headline,
           o.v.bullets, o.v.confidence, o.v.attribution,
           IF "raw_counts" \in o.keys THEN o.v.raw_counts
           ELSE [observations |-> Len(res.observations), gaps |-> Len(res.gaps)])

\* a summary that names the instrument of the result, which is the plan's
SummaryOutput_TickerOfResult(tk, o, res) ==
    Output("summary", {"ticker", "raw_counts"} \cup SummaryKeys, res.ticker, o.v.headline,
           o.v.bullets, o.v.confidence, o.v.attribution,
           [observations |-> Len(res.observations), gaps |-> Len(res.gaps)])

\* summary.model_dump() of the SatelliteSummary summarize builds
SummaryOutput(tk, o, res) ==
    Output("summary", {"ticker", "raw_counts"} \cup SummaryKeys, tk, o.v.headline,
           o.v.bullets, o.v.confidence, o.v.attribution,
           [observations |-> Len(res.observations), gaps |-> Len(res.gaps)])

SummarizeError(o) ==
    IF o.kind = "raise" THEN "LLMError"
    ELSE IF o.kind = "text" THEN "JSONDecodeError"
    ELSE IF ~(SummaryKeys \subseteq o.keys) THEN "KeyError"
    ELSE "ValidationError"

-----------------------------------------------------------------------------
(* summarizer.py:78 and schemas.py: an ObservationResult as a JSON document *)
(* (model_dump, json.dumps) and back (json.loads, validation against the    *)
(* schema). A JSON object is a record with the set `keys` of the keys it    *)
(* has; an Optional number is null or a number; strings and lists are       *)
(* carried as they are.                                                     *)

JNull == [t |-> "null", n |-> 0]

JNum(x) == [t |-> "number", n |-> x]

ObservationKeys ==
    {"target", "sensor", "metric", "value", "quality", "as_of", "provenance", "note"}

ResultKeys == {"ticker", "observations", "gaps", "summary_notes"}

\* the empty dict, the default of Observation.provenance
NoProvenance == [bbox |-> NoBbox, samples_curr |-> 0, samples_prev |-> 0]

\* a dump that leaves the provenance out
DumpObservation_NoProvenance(o) ==
    [keys |-> ObservationKeys \ {"provenance"}, target |-> o.target,
     sensor |-> o.sensor, metric |-> o.metric,
     value |-> IF o.value = None THEN JNull ELSE JNum(TheValue(o.value)),
     quality |-> JNum(o.quality), as_of |-> o.as_of,
     provenance |-> NoProvenance, note |-> o.note]

\* model_dump of an Observation: every field is a key, None becomes null
DumpObservation(o) ==
    [keys |-> ObservationKeys, target |-> o.target,
     sensor |-> o.sensor, metric |-> o.metric,
     value |-> IF o.value = None THEN JNull ELSE JNum(TheValue(o.value)),
     quality |-> JNum(o.quality), as_of |-> o.as_of,
     provenance |-> o.provenance, note |-> o.note]

\* json.dumps(result.model_dump()): lists keep their order
DumpResult(r) ==
    [keys |-> ResultKeys, ticker |-> r.ticker,
     observations |-> [i \in 1..Len(r.observations) |-> DumpObservation(r.observations[i])],
     gaps |-> r.gaps, summary_notes |-> r.summary_notes]

NoJson == DumpResult(ObservationResult(""))

\* the constraints of the Observation schema: required keys, the sensor
\* literal, quality a number in [0, 1] (in 1/5600)
ObservationValidates(j) ==
    /\ {"target", "sensor", "metric", "quality", "as_of"} \subseteq j.keys
    /\ j.sensor \in SensorType
    /\ j.quality.t = "number" /\ j.quality.n >= 0 /\ j.quality.n <= 5600

\* Observation(**d): an absent optional key takes the schema's default
LoadObservation(j) ==
    [target |-> j.target, sensor |-> j.sensor, metric |-> j.metric,
     value |-> IF "value" \in j.keys /\ j.value.t = "number" THEN Some(j.value.n)
               ELSE None,
     quality |-> j.quality.n, as_of |-> j.as_of,
     provenance |-> IF "provenance" \in j.keys THEN j.provenance ELSE NoProvenance,
     note |-> IF "note" \in j.keys THEN j.note ELSE ""]

\* ObservationResult(**json.loads(s)): ok is false when validation fails
LoadResult(j) ==
    IF /\ "ticker" \in j.keys
       /\ "observations" \in j.keys =>
              \A i \in 1..Len(j.observations) : ObservationValidates(j.observations[i])
    THEN [ok |-> TRUE,
          r  |-> [ticker |-> j.ticker,
                  observations |->
                      IF "observations" \in j.keys
                      THEN [i \in 1..Len(j.observations) |->
                               LoadObservation(j.observations[i])]
                      ELSE <<>>,
                  gaps |-> IF "gaps" \in j.keys THEN j.gaps ELSE <<>>,
                  summary_notes |-> IF "summary_notes" \in j.keys
                                    THEN j.summary_notes ELSE <<>>]]
    ELSE [ok |-> FALSE, r |-> ObservationResult("")]

-----------------------------------------------------------------------------
(* The state machine.                                                      *)

\* _extract_json is not being called on its own
NoExtract == [text |-> <<>>, ret |-> None]

\* fetch_news_articles is not running
NoNews == [max_articles |-> 0, response |-> <<>>, i |-> 1, articles |-> <<>>]

\* quality_from_valid_ratio is not being called on its own
NoQualityCall == [valid_ratio |-> 0, scene_age_days |-> 0, ret |-> None]

NoError == [stage |-> "none", at |-> "none", type |-> "none"]

Raised(stage, at, type) == [stage |-> stage, at |-> at, type |-> type]

NoCall == [kind |-> "none", exc |-> "", keys |-> {}, v |-> NoPlan]

NoResult == ObservationResult("")

StartCursor == [t |-> 1, s |-> 1, f |-> 1, k |-> 0]

Init ==
    /\ pc = "start"
    /\ ticker \in Tickers
    /\ industry \in IndustryArgs
    /\ raw = NoCall
    /\ plan = NoPlan
    /\ exec_plan = NoPlan
    /\ cur = StartCursor
    /\ token = None
    /\ bbox = NoBbox
    /\ stack_curr = <<>>
    /\ stack_prev = <<>>
    /\ result = NoResult
    /\ sum_in = NoResult
    /\ obs_json = NoJson
    /\ qcall = NoQualityCall
    /\ news = NoNews
    /\ ext = NoExtract
    /\ verdict = NoVerdict
    /\ out = NoOutput
    /\ error = NoError
    /\ calls = [decision |-> 0, execute |-> 0, verify |-> 0, token |-> 0, fetch |-> 0]
    /\ log = <<>>

\* router.py:77-83 with planner.py:75-178: the decision function is called
\* once and build_plan returns a plan
BuildPlan ==
    /\ pc = "start"
    /\ \E r \in DecisionOutcomes :
          /\ raw' = r
          /\ plan' = build_plan(ticker, industry, r)
    /\ calls' = [calls EXCEPT !.decision = @ + 1]
    /\ log' = log \o <<"build_plan", "decision", "build_plan:return">>
    /\ pc' = "planned"
    /\ UNCHANGED <<ext, news, qcall, obs_json, verdict, ticker, industry, exec_plan, cur, token, bbox, stack_curr,
                   stack_prev, result, sum_in, out, error>>

\* a short circuit that also takes the plans without targets
ReturnInapplicable_AlsoWithoutTargets ==
    /\ pc = "planned"
    /\ ~plan.use_satellite \/ plan.targets = <<>>
    /\ out' = InapplicableBlock(ticker, plan)
    /\ pc' = "done"
    /\ log' = log \o <<"return">>
    /\ UNCHANGED <<ext, news, qcall, obs_json, verdict, ticker, industry, raw, plan, exec_plan, cur, token, bbox,
                   stack_curr, stack_prev, result, sum_in, error, calls>>

\* router.py:86-93: the short circuit
ReturnInapplicable ==
    /\ pc = "planned"
    /\ ~plan.use_satellite
    /\ out' = InapplicableBlock(ticker, plan)
    /\ pc' = "done"
    /\ log' = log \o <<"return">>
    /\ UNCHANGED <<ext, news, qcall, obs_json, verdict, ticker, industry, raw, plan, exec_plan, cur, token, bbox,
                   stack_curr, stack_prev, result, sum_in, error, calls>>

\* a router without the short circuit: execute_plan is called for every plan
CallExecutePlan_NoShortCircuit ==
    /\ pc = "planned"
    /\ exec_plan' = plan
    /\ raw' = NoCall
    /\ calls' = [calls EXCEPT !.execute = @ + 1]
    /\ log' = log \o <<"execute_plan">>
    /\ pc' = "exec_entry"
    /\ UNCHANGED <<ext, news, qcall, obs_json, verdict, ticker, industry, plan, cur, token, bbox, stack_curr,
                   stack_prev, result, sum_in, out, error>>

\* a router that hands execute_plan the targets and the fallbacks together
CallExecutePlan_WithFallbacks ==
    /\ pc = "planned"
    /\ plan.use_satellite
    /\ exec_plan' = [plan EXCEPT !.targets = @ \o plan.fallbacks]
    /\ raw' = NoCall
    /\ calls' = [calls EXCEPT !.execute = @ + 1]
    /\ log' = log \o <<"execute_plan">>
    /\ pc' = "exec_entry"
    /\ UNCHANGED <<ext, news, qcall, obs_json, verdict, ticker, industry, plan, cur, token, bbox, stack_curr,
                   stack_prev, result, sum_in, out, error>>

\* router.py:96: execute_plan(plan) is called
CallExecutePlan ==
    /\ pc = "planned"
    /\ plan.use_satellite
    /\ exec_plan' = plan
    /\ raw' = NoCall
    /\ calls' = [calls EXCEPT !.execute = @ + 1]
    /\ log' = log \o <<"execute_plan">>
    /\ pc' = "exec_entry"
    /\ UNCHANGED <<ext, news, qcall, obs_json, verdict, ticker, industry, plan, cur, token, bbox, stack_curr,
                   stack_prev, result, sum_in, out, error>>

\* an early return that tests use_satellite alone: a plan without targets
\* goes through the loop
ExecutePlanBegin_IgnoresEmptyTargets ==
    /\ pc = "exec_entry"
    /\ IF ~exec_plan.use_satellite
       THEN /\ result' = [ObservationResult(exec_plan.ticker) EXCEPT
                             !.summary_notes =
                                 IF exec_plan.notes # <<>> THEN exec_plan.notes
                                 ELSE <<"Satellite not applicable">>]
            /\ pc' = "exec_returned"
            /\ log' = log \o <<"execute_plan:return">>
       ELSE /\ result' = ObservationResult(exec_plan.ticker)
            /\ pc' = "exec_loop"
            /\ log' = log
    /\ cur' = StartCursor
    /\ UNCHANGED <<ext, news, qcall, obs_json, verdict, ticker, industry, raw, plan, exec_plan, token, bbox, stack_curr,
                   stack_prev, sum_in, out, error, calls>>

\* executor.py:136-139: the fresh result and the early return
ExecutePlanBegin ==
    /\ pc = "exec_entry"
    /\ IF ~exec_plan.use_satellite \/ exec_plan.targets = <<>>
       THEN /\ result' = [ObservationResult(exec_plan.ticker) EXCEPT
                             !.summary_notes =
                                 IF exec_plan.notes # <<>> THEN exec_plan.notes
                                 ELSE <<"Satellite not applicable">>]
            /\ pc' = "exec_returned"
            /\ log' = log \o <<"execute_plan:return">>
       ELSE /\ result' = ObservationResult(exec_plan.ticker)
            /\ pc' = "exec_loop"
            /\ log' = log
    /\ cur' = StartCursor
    /\ UNCHANGED <<ext, news, qcall, obs_json, verdict, ticker, industry, raw, plan, exec_plan, token, bbox, stack_curr,
                   stack_prev, sum_in, out, error, calls>>

CurTarget == exec_plan.targets[cur.t]

CurSensor == CurTarget.sensors[cur.s]

CurFeature == CurSensor.features[cur.f]

LoopDone == cur.t > Len(exec_plan.targets)

\* executor.py:141-147: the three nested loops, one iteration at a time; a
\* (sensor, feature) pair without a handler is passed over
ExecAdvance ==
    /\ pc = "exec_loop"
    /\ ~LoopDone
    /\ IF cur.s > Len(CurTarget.sensors)
       THEN cur' = [t |-> cur.t + 1, s |-> 1, f |-> 1, k |-> 0] /\ pc' = pc
       ELSE IF cur.f > Len(CurSensor.features)
       THEN cur' = [cur EXCEPT !.s = @ + 1, !.f = 1] /\ pc' = pc
       ELSE IF Dispatchable(CurSensor, CurFeature)
       THEN cur' = cur /\ pc' = "auth"
       ELSE cur' = [cur EXCEPT !.f = @ + 1] /\ pc' = pc
    /\ UNCHANGED <<ext, news, qcall, obs_json, verdict, ticker, industry, raw, plan, exec_plan, token, bbox, stack_curr,
                   stack_prev, result, sum_in, out, error, calls, log>>


\* an exception leaves execute_plan, and with it run_satellite_module
ExecRaises(at, type) ==
    /\ pc' = "raised"
    /\ error' = Raised("observe", at, type)
    /\ log' = log \o <<"execute_plan:raise">>

\* a handler that turns a failed token request into a gap and goes on with
\* the next feature
AuthToken_FailureIsGap ==
    /\ pc = "auth"
    /\ \E o \in AuthOutcomes :
          /\ calls' = [calls EXCEPT !.token = IF o = "no_credentials" THEN @ ELSE @ + 1]
          /\ IF o = "ok"
             THEN /\ token' = Some("bearer")
                  /\ pc' = "bbox"
                  /\ UNCHANGED <<result, cur>>
             ELSE /\ token' = token
                  /\ result' = [result EXCEPT !.gaps = Append(@, <<"auth failed">>)]
                  /\ cur' = [cur EXCEPT !.f = @ + 1]
                  /\ pc' = "exec_loop"
    /\ UNCHANGED <<ext, news, qcall, obs_json, verdict, ticker, industry, raw, plan, exec_plan, bbox, stack_curr,
                   stack_prev, sum_in, out, error, log>>

\* executor.py:84 with 28-38: _auth_token; without credentials no request is
\* sent, and every failure is an exception nobody catches
AuthToken ==
    /\ pc = "auth"
    /\ \E o \in AuthOutcomes :
          /\ calls' = [calls EXCEPT !.token = IF o = "no_credentials" THEN @ ELSE @ + 1]
          /\ IF o = "ok"
             THEN /\ token' = Some("bearer")
                  /\ pc' = "bbox"
                  /\ UNCHANGED <<error, log>>
             ELSE /\ token' = token
                  /\ ExecRaises("auth", IF o = "no_credentials" THEN "RuntimeError"
                                        ELSE IF o = "timeout" THEN "Timeout"
                                        ELSE "HTTPError")
    /\ UNCHANGED <<ext, news, qcall, obs_json, verdict, ticker, industry, raw, plan, exec_plan, cur, bbox, stack_curr,
                   stack_prev, result, sum_in, out>>

\* executor.py:85 with 41-51: _bbox_from_target raises ValueError for a target
\* with neither a polygon nor (lat, lon), and nobody catches it
ResolveBbox ==
    /\ pc = "bbox"
    /\ IF HasGeometry(CurTarget)
       THEN /\ bbox' = bbox_from_target(CurTarget)
            /\ pc' = "fetch"
            /\ UNCHANGED <<error, log>>
       ELSE /\ bbox' = bbox
            /\ ExecRaises("bbox", "ValueError")
    /\ UNCHANGED <<ext, news, qcall, obs_json, verdict, ticker, industry, raw, plan, exec_plan, cur, token, stack_curr,
                   stack_prev, result, sum_in, out, calls>>

\* what one request of _fetch_s2_stack does to the stack it fills: only a
\* decodable 200 answer is appended, a non-200 answer is passed over
StackAfter(stack, o) == IF o.kind = "ok" THEN Append(stack, o.img) ELSE stack

FetchRaises(o) == o.kind \in {"timeout", "bad_body"}

\* a fetch that asks again for a sample the provider answered with a
\* non-200 status
FetchSampleFrom_Retries(outcomes) ==
    /\ pc = "fetch"
    /\ cur.k < 4
    /\ \E o \in outcomes :
          /\ calls' = [calls EXCEPT !.fetch = @ + 1]
          /\ IF FetchRaises(o)
             THEN /\ ExecRaises("fetch", IF o.kind = "timeout" THEN "Timeout"
                                         ELSE "TiffFileError")
                  /\ UNCHANGED <<stack_curr, stack_prev, cur>>
             ELSE IF o.kind = "http_error"
             THEN UNCHANGED <<stack_curr, stack_prev, cur, pc, error, log>>
             ELSE /\ stack_curr' = IF cur.k < 2 THEN StackAfter(stack_curr, o)
                                   ELSE stack_curr
                  /\ stack_prev' = IF cur.k < 2 THEN stack_prev
                                   ELSE StackAfter(stack_prev, o)
                  /\ cur' = [cur EXCEPT !.k = @ + 1]
                  /\ pc' = IF cur.k + 1 = 4 THEN "compute" ELSE "fetch"
                  /\ UNCHANGED <<error, log>>
    /\ UNCHANGED <<ext, news, qcall, obs_json, verdict, ticker, industry, raw, plan,
                   exec_plan, token, bbox, result, sum_in, out>>

\* executor.py:88-89 with 54-81: the four requests, two per window (samples
\* 0 and 1 fill stack_curr, 2 and 3 fill stack_prev), answered by a provider
\* with the given outcomes
FetchSampleFrom(outcomes) ==
    /\ pc = "fetch"
    /\ cur.k < 4
    /\ \E o \in outcomes :
          /\ calls' = [calls EXCEPT !.fetch = @ + 1]
          /\ IF FetchRaises(o)
             THEN /\ ExecRaises("fetch", IF o.kind = "timeout" THEN "Timeout"
                                         ELSE "TiffFileError")
                  /\ UNCHANGED <<stack_curr, stack_prev, cur>>
             ELSE /\ stack_curr' = IF cur.k < 2 THEN StackAfter(stack_curr, o)
                                   ELSE stack_curr
                  /\ stack_prev' = IF cur.k < 2 THEN stack_prev
                                   ELSE StackAfter(stack_prev, o)
                  /\ cur' = [cur EXCEPT !.k = @ + 1]
                  /\ pc' = IF cur.k + 1 = 4 THEN "compute" ELSE "fetch"
                  /\ UNCHANGED <<error, log>>
    /\ UNCHANGED <<ext, news, qcall, obs_json, verdict, ticker, industry, raw, plan,
                   exec_plan, token, bbox, result, sum_in, out>>

FetchSample == FetchSampleFrom(FetchOutcomes)

\* an executor that goes on with the next target once a target has its
\* Observation
ComputeObservation_NextTarget ==
    /\ pc = "compute"
    /\ result' = [result EXCEPT !.observations =
                     @ \o <<NdviObservation(CurTarget, bbox, stack_curr, stack_prev)>>]
    /\ cur' = [t |-> cur.t + 1, s |-> 1, f |-> 1, k |-> 0]
    /\ token' = None
    /\ bbox' = NoBbox
    /\ stack_curr' = <<>>
    /\ stack_prev' = <<>>
    /\ pc' = "exec_loop"
    /\ UNCHANGED <<ext, news, qcall, obs_json, verdict, ticker, industry, raw, plan,
                   exec_plan, sum_in, out, error, calls, log>>

\* executor.py:90-133 and 146: the Observation is built and appended; the
\* locals of compute_ndvi_change_for_target go away
ComputeObservation ==
    /\ pc = "compute"
    /\ result' = [result EXCEPT !.observations =
                     @ \o <<NdviObservation(CurTarget, bbox, stack_curr, stack_prev)>>]
    /\ cur' = [cur EXCEPT !.f = @ + 1, !.k = 0]
    /\ token' = None
    /\ bbox' = NoBbox
    /\ stack_curr' = <<>>
    /\ stack_prev' = <<>>
    /\ pc' = "exec_loop"
    /\ UNCHANGED <<ext, news, qcall, obs_json, verdict, ticker, industry, raw, plan, exec_plan, sum_in, out, error,
                   calls, log>>

\* a return without the generic gap
ExecFinish_NoGap ==
    /\ pc = "exec_loop"
    /\ LoopDone
    /\ pc' = "exec_returned"
    /\ log' = log \o <<"execute_plan:return">>
    /\ UNCHANGED <<ext, news, qcall, obs_json, verdict, ticker, industry, raw, plan, exec_plan, cur, token, bbox,
                   stack_curr, stack_prev, result, sum_in, out, error, calls>>

\* executor.py:149-151: the generic gap and the return
ExecFinish ==
    /\ pc = "exec_loop"
    /\ LoopDone
    /\ result' = IF result.observations = <<>>
                 THEN [result EXCEPT !.gaps =
                          Append(@, <<"No usable scenes or features computed">>)]
                 ELSE result
    /\ pc' = "exec_returned"
    /\ log' = log \o <<"execute_plan:return">>
    /\ UNCHANGED <<ext, news, qcall, obs_json, verdict, ticker, industry, raw, plan, exec_plan, cur, token, bbox,
                   stack_curr, stack_prev, sum_in, out, error, calls>>

\* a summarize that removes the observations below the quality threshold of
\* 0.6 from the result it was given
Summarize_DropsLowQuality ==
    /\ pc = "exec_returned"
    /\ result' = [result EXCEPT !.observations =
                     SelectSeq(@, LAMBDA o : 10 * o.quality >= 6 * 5600)]
    /\ sum_in' = result'
    /\ obs_json' = DumpResult(result')
    /\ calls' = [calls EXCEPT !.verify = @ + 1]
    /\ \E o \in VerifyOutcomes :
          /\ verdict' = o
          /\ IF SummaryBuilds(o)
             THEN /\ out' = SummaryOutput(ticker, o, sum_in')
                  /\ pc' = "done"
                  /\ error' = error
                  /\ log' = log \o <<"summarize", "verification", "summarize:return", "return">>
             ELSE /\ out' = out
                  /\ pc' = "raised"
                  /\ error' = Raised("explain", "summarize", SummarizeError(o))
                  /\ log' = log \o <<"summarize", "verification", "summarize:raise">>
    /\ UNCHANGED <<ext, news, qcall, ticker, industry, raw, plan, exec_plan, cur, token,
                   bbox, stack_curr, stack_prev>>

\* a summarize that answers a failed verification with the inapplicable block
Summarize_FallsBack ==
    /\ pc = "exec_returned"
    /\ sum_in' = result
    /\ obs_json' = DumpResult(result)
    /\ calls' = [calls EXCEPT !.verify = @ + 1]
    /\ \E o \in VerifyOutcomes :
          /\ verdict' = o
          /\ out' = IF SummaryBuilds(o) THEN SummaryOutput(ticker, o, sum_in')
                    ELSE InapplicableBlock(ticker, exec_plan)
          /\ pc' = "done"
          /\ error' = error
          /\ log' = log \o <<"summarize", "verification", "summarize:return", "return">>
    /\ UNCHANGED <<ext, news, qcall, ticker, industry, raw, plan, exec_plan, cur, token, bbox,
                   stack_curr, stack_prev, result>>

\* router.py:99-102 with summarizer.py:77-102: summarize(llm, ticker, industry,
\* result); nothing catches what the verification function, json.loads, a
\* subscript or the SatelliteSummary constructor raises
Summarize ==
    /\ pc = "exec_returned"
    /\ sum_in' = result
    /\ obs_json' = DumpResult(result)
    /\ calls' = [calls EXCEPT !.verify = @ + 1]
    /\ \E o \in VerifyOutcomes :
          /\ verdict' = o
          /\ IF SummaryBuilds(o)
             THEN /\ out' = SummaryOutput(ticker, o, sum_in')
                  /\ pc' = "done"
                  /\ error' = error
                  /\ log' = log \o <<"summarize", "verification", "summarize:return", "return">>
             ELSE /\ out' = out
                  /\ pc' = "raised"
                  /\ error' = Raised("explain", "summarize", SummarizeError(o))
                  /\ log' = log \o <<"summarize", "verification", "summarize:raise">>
    /\ UNCHANGED <<ext, news, qcall, ticker, industry, raw, plan, exec_plan, cur, token, bbox,
                   stack_curr, stack_prev, result>>

Next ==
    \/ BuildPlan
    \/ ReturnInapplicable
    \/ CallExecutePlan
    \/ ExecutePlanBegin
    \/ ExecAdvance
    \/ AuthToken
    \/ ResolveBbox
    \/ FetchSample
    \/ ComputeObservation
    \/ ExecFinish
    \/ Summarize

Spec == Init /\ [][Next]_vars

\* execute_plan called on its own: the plans a caller can hand it, with and
\* without use_satellite, with and without notes
ExecPlans ==
    { ObservationPlan("TSLA", None, use, tg, <<>>, notes) :
          use \in BOOLEAN,
          tg \in SeqsUpTo(TargetPresets \cup {T_road}, MaxPlanTargets),
          notes \in {<<>>, <<"LLM notes.">>} }
    \cup { ObservationPlan("TSLA", None, TRUE, tg, <<>>, <<>>) :
              tg \in {<<T_farm>>, <<T_city, T_farm>>} }

InitExec ==
    /\ pc = "exec_entry"
    /\ ticker \in Tickers
    /\ industry = None
    /\ raw = NoCall
    /\ plan = NoPlan
    /\ exec_plan \in ExecPlans
    /\ cur = StartCursor
    /\ token = None
    /\ bbox = NoBbox
    /\ stack_curr = <<>>
    /\ stack_prev = <<>>
    /\ result = NoResult
    /\ sum_in = NoResult
    /\ obs_json = NoJson
    /\ qcall = NoQualityCall
    /\ news = NoNews
    /\ ext = NoExtract
    /\ verdict = NoVerdict
    /\ out = NoOutput
    /\ error = NoError
    /\ calls = [decision |-> 0, execute |-> 1, verify |-> 0, token |-> 0, fetch |-> 0]
    /\ log = <<"execute_plan">>

NextExec ==
    \/ ExecutePlanBegin
    \/ ExecAdvance
    \/ AuthToken
    \/ ResolveBbox
    \/ FetchSample
    \/ ComputeObservation
    \/ ExecFinish

SpecExec == InitExec /\ [][NextExec]_vars

\* execute_plan on one target with geometry, against a provider that serves
\* the scenes of NdviImages
NdviPlans ==
    { ObservationPlan("TSLA", None, TRUE, <<t>>, <<>>, <<>>) : t \in {T_site, T_port} }

FetchNdviSample == FetchSampleFrom(NdviFetchOutcomes)

InitNdvi ==
    /\ pc = "exec_entry"
    /\ ticker \in Tickers
    /\ industry = None
    /\ raw = NoCall
    /\ plan = NoPlan
    /\ exec_plan \in NdviPlans
    /\ cur = StartCursor
    /\ token = None
    /\ bbox = NoBbox
    /\ stack_curr = <<>>
    /\ stack_prev = <<>>
    /\ result = NoResult
    /\ sum_in = NoResult
    /\ obs_json = NoJson
    /\ qcall = NoQualityCall
    /\ news = NoNews
    /\ ext = NoExtract
    /\ verdict = NoVerdict
    /\ out = NoOutput
    /\ error = NoError
    /\ calls = [decision |-> 0, execute |-> 1, verify |-> 0, token |-> 0, fetch |-> 0]
    /\ log = <<"execute_plan">>

NextNdvi ==
    \/ ExecutePlanBegin
    \/ ExecAdvance
    \/ AuthToken
    \/ ResolveBbox
    \/ FetchNdviSample
    \/ ComputeObservation
    \/ ExecFinish

SpecNdvi == InitNdvi /\ [][NextNdvi]_vars

\* quality_from_valid_ratio called on its own, with valid ratios from below 0
\* to above 1 (in 1/200) and scene ages from before today to past the
\* 14 days (in days)
QualityRatios == (0 - MaxRatioExcess)..(200 + MaxRatioExcess)

QualityAges == (0 - MaxAgeExcess)..(14 + MaxAgeExcess)

InitQuality ==
    /\ pc = "quality_entry"
    /\ ticker \in Tickers
    /\ industry = None
    /\ raw = NoCall
    /\ plan = NoPlan
    /\ exec_plan = NoPlan
    /\ cur = StartCursor
    /\ token = None
    /\ bbox = NoBbox
    /\ stack_curr = <<>>
    /\ stack_prev = <<>>
    /\ result = NoResult
    /\ sum_in = NoResult
    /\ obs_json = NoJson
    /\ verdict = NoVerdict
    /\ out = NoOutput
    /\ error = NoError
    /\ calls = [decision |-> 0, execute |-> 0, verify |-> 0, token |-> 0, fetch |-> 0]
    /\ log = <<>>
    /\ \E v \in QualityRatios, a \in QualityAges :
          qcall = [valid_ratio |-> v, scene_age_days |-> a, ret |-> None]
    /\ news = NoNews
    /\ ext = NoExtract

\* features.py:89-90: the call returns
CallQuality ==
    /\ pc = "quality_entry"
    /\ qcall' = [qcall EXCEPT !.ret =
                    Some(quality_from_valid_ratio(qcall.valid_ratio, qcall.scene_age_days))]
    /\ pc' = "quality_returned"
    /\ UNCHANGED <<ext, news, ticker, industry, raw, plan, exec_plan, cur, token, bbox,
                   stack_curr, stack_prev, result, sum_in, obs_json, verdict, out,
                   error, calls, log>>

NextQuality == CallQuality

SpecQuality == InitQuality /\ [][NextQuality]_vars

-----------------------------------------------------------------------------
(* tools/news_scraper.py: fetch_news_articles. An item of the provider's   *)
(* response is the set of its keys and its summary (a sequence of text     *)
(* fragments, empty for "" and for a missing key).                         *)

NewsKeys == {"headline", "summary", "source", "url", "datetime"}

NewsItem(keys, summary) == [keys |-> keys, summary |-> summary]

\* a complete item, one with an empty summary, one without the summary key,
\* and one with a summary but without a headline
NewsItems ==
    { NewsItem(NewsKeys, <<"Shares rose.">>),
      NewsItem(NewsKeys, <<>>),
      NewsItem(NewsKeys \ {"summary"}, <<>>),
      NewsItem(NewsKeys \ {"headline"}, <<"Shares fell.">>) }

\* item.get("summary") is truthy
HasSummary(item) == "summary" \in item.keys /\ item.summary # <<>>

\* the subscripts of news_scraper.py:31-35 all find their key
ArticleBuilds(item) == {"headline", "summary", "url", "datetime"} \subseteq item.keys

InitNews ==
    /\ pc = "news_loop"
    /\ ticker \in Tickers
    /\ industry = None
    /\ raw = NoCall
    /\ plan = NoPlan
    /\ exec_plan = NoPlan
    /\ cur = StartCursor
    /\ token = None
    /\ bbox = NoBbox
    /\ stack_curr = <<>>
    /\ stack_prev = <<>>
    /\ result = NoResult
    /\ sum_in = NoResult
    /\ obs_json = NoJson
    /\ verdict = NoVerdict
    /\ out = NoOutput
    /\ error = NoError
    /\ calls = [decision |-> 0, execute |-> 0, verify |-> 0, token |-> 0, fetch |-> 0]
    /\ log = <<>>
    /\ qcall = NoQualityCall
    /\ \E m \in 0..MaxNewsItems, r \in SeqsUpTo(NewsItems, MaxNewsItems) :
          news = [max_articles |-> m, response |-> r, i |-> 1, articles |-> <<>>]
    /\ ext = NoExtract

\* news_scraper.py:27-38: one turn of the loop; an item without a summary is
\* passed over, a missing key raises, and the length is tested after the
\* append
NewsLoopItem ==
    /\ pc = "news_loop"
    /\ news.i <= Len(news.response)
    /\ LET item == news.response[news.i]
       IN  IF ~HasSummary(item)
           THEN /\ news' = [news EXCEPT !.i = @ + 1]
                /\ pc' = pc
                /\ error' = error
           ELSE IF ~ArticleBuilds(item)
           THEN /\ news' = news
                /\ pc' = "raised"
                /\ error' = Raised("news", "fetch_news_articles", "KeyError")
           ELSE /\ news' = [news EXCEPT !.i = @ + 1,
                                        !.articles = Append(@, item)]
                /\ pc' = IF Len(news.articles) + 1 >= news.max_articles
                         THEN "news_returned" ELSE pc
                /\ error' = error
    /\ UNCHANGED <<ext, qcall, ticker, industry, raw, plan, exec_plan, cur, token,
                   bbox, stack_curr, stack_prev, result, sum_in, obs_json, verdict,
                   out, calls, log>>

\* news_scraper.py:27 and 40: the response is used up and the list is returned
NewsLoopEnd ==
    /\ pc = "news_loop"
    /\ news.i > Len(news.response)
    /\ pc' = "news_returned"
    /\ UNCHANGED <<ext, news, qcall, ticker, industry, raw, plan, exec_plan, cur, token,
                   bbox, stack_curr, stack_prev, result, sum_in, obs_json, verdict,
                   out, error, calls, log>>

NextNews ==
    \/ NewsLoopItem
    \/ NewsLoopEnd

SpecNews == InitNews /\ [][NextNews]_vars

-----------------------------------------------------------------------------
(* agents/satellite_agent.py: _extract_json. A text is a sequence of        *)
(* one-character strings.                                                  *)

\* str.strip(chars)
StripChars(s, chars) ==
    LET keep == {i \in 1..Len(s) : s[i] \notin chars}
    IN  IF keep = {} THEN <<>> ELSE SubSeq(s, MinOf(keep), MaxOf(keep))

StartsWith(s, prefix) ==
    Len(s) >= Len(prefix) /\ SubSeq(s, 1, Len(prefix)) = prefix

\* the character U+0060, which has no place in a string of this notation
Backtick == "BACKTICK"

Fence == <<Backtick, Backtick, Backtick>>

\* str.find and str.rfind for one character, counting from 1; 0 is Python's -1
Find(s, c) ==
    IF \E i \in 1..Len(s) : s[i] = c THEN MinOf({i \in 1..Len(s) : s[i] = c}) ELSE 0

RFind(s, c) ==
    IF \E i \in 1..Len(s) : s[i] = c THEN MaxOf({i \in 1..Len(s) : s[i] = c}) ELSE 0

\* satellite_agent.py:20-30
extract_json(text) ==
    LET s0    == StrStrip(text)
        s     == IF StartsWith(s0, Fence) THEN StripChars(s0, {Backtick}) ELSE s0
        start == Find(s, "{")
        end   == RFind(s, "}")
    IN  IF start # 0 /\ end # 0 /\ end > start THEN SubSeq(s, start, end) ELSE s

\* the characters of the texts tried: braces, the backtick, a blank, a letter
TextChars == {"{", "}", Backtick, " ", "a"}

\* the texts tried: every short text, and every short body between two
\* fences, with and without prose around
Texts ==
    SeqsUpTo(TextChars, MaxTextLen)
    \cup { pre \o Fence \o body \o Fence \o post :
              pre \in {<<>>, <<"a", " ">>}, post \in {<<>>, <<" ", "a">>},
              body \in SeqsUpTo(TextChars \ {Backtick}, MaxTextLen) }

InitExtract ==
    /\ pc = "extract_entry"
    /\ ticker \in Tickers
    /\ industry = None
    /\ raw = NoCall
    /\ plan = NoPlan
    /\ exec_plan = NoPlan
    /\ cur = StartCursor
    /\ token = None
    /\ bbox = NoBbox
    /\ stack_curr = <<>>
    /\ stack_prev = <<>>
    /\ result = NoResult
    /\ sum_in = NoResult
    /\ obs_json = NoJson
    /\ verdict = NoVerdict
    /\ out = NoOutput
    /\ error = NoError
    /\ calls = [decision |-> 0, execute |-> 0, verify |-> 0, token |-> 0, fetch |-> 0]
    /\ log = <<>>
    /\ qcall = NoQualityCall
    /\ news = NoNews
    /\ \E t \in Texts : ext = [text |-> t, ret |-> None]

\* the call returns
CallExtract ==
    /\ pc = "extract_entry"
    /\ ext' = [ext EXCEPT !.ret = Some(extract_json(ext.text))]
    /\ pc' = "extract_returned"
    /\ UNCHANGED <<news, qcall, ticker, industry, raw, plan, exec_plan, cur, token,
                   bbox, stack_curr, stack_prev, result, sum_in, obs_json, verdict,
                   out, error, calls, log>>

NextExtract == CallExtract

SpecExtract == InitExtract /\ [][NextExtract]_vars

-----------------------------------------------------------------------------
(* Properties.                                                             *)

\* build_plan has returned and the decision function's outcome is still at hand
PlanReturned == pc = "planned"

\* the industry argument, trimmed and lower-cased, is a skip-list entry
InSkipList(ind) ==
    /\ ind # None
    /\ StrLower(StrStrip(TheValue(ind))) \in INDUSTRY_NO_NEED_SATELLITE

\* C1: for an industry argument that, trimmed and lower-cased, is in the skip
\* list, the plan build_plan returns has use_satellite = false and no targets,
\* whatever the decision function did
C1_SkipListForcesNoSatellite ==
    (pc # "start" /\ InSkipList(industry)) =>
        (~plan.use_satellite /\ plan.targets = <<>>)

\* a skip-list industry in another spelling, and a valid payload that asked for
\* satellite observation of some targets
C1_Witness ==
    /\ PlanReturned
    /\ industry = Some(<<" ","S","a","a","S","\t">>)
    /\ SchemaValid(raw) /\ raw.v.use_satellite /\ raw.v.targets # <<>>
    /\ ~plan.use_satellite /\ plan.targets = <<>>

\* the targets a schema-valid payload carried (none otherwise)
ReturnedTargets(r) ==
    IF SchemaValid(r) /\ "targets" \in r.keys THEN r.v.targets ELSE <<>>

\* C2 as stated: every plan has at most two targets, and when more than two
\* were returned the plan keeps the prefix of length two
C2_Original ==
    PlanReturned =>
        /\ Len(plan.targets) <= 2
        /\ Len(ReturnedTargets(raw)) > 2 =>
              plan.targets = SubSeq(ReturnedTargets(raw), 1, 2)

\* C2 amended: every plan has at most two targets; when more than two were
\* returned the plan keeps the prefix of length two unless the industry
\* guardrail fired, and then it keeps none
C2_AtMostTwoTargets ==
    PlanReturned =>
        /\ Len(plan.targets) <= 2
        /\ Len(ReturnedTargets(raw)) > 2 =>
              plan.targets = IF InSkipList(industry) THEN <<>>
                             ELSE SubSeq(ReturnedTargets(raw), 1, 2)

\* three targets were returned and two are kept
C2_Witness ==
    /\ PlanReturned
    /\ Len(ReturnedTargets(raw)) = 3
    /\ plan.targets = SubSeq(raw.v.targets, 1, 2)
    /\ plan.targets[1] # plan.targets[2]

\* C3: build_plan always returns; when the decision function raised or its
\* payload failed validation, the plan carries the caller's ticker and
\* industry, use_satellite = false, no targets, no fallbacks and a note
C3_FallbackOnFailure ==
    [][ pc = "start" =>
          /\ pc' = "planned"
          /\ (raw'.kind = "raise" \/ ~SchemaValid(raw')) =>
                /\ plan'.ticker = ticker /\ plan'.industry = industry
                /\ ~plan'.use_satellite
                /\ plan'.targets = <<>> /\ plan'.fallbacks = <<>>
                /\ plan'.notes # <<>> ]_vars

\* the payload parsed as JSON and failed validation, for a caller that gave
\* an industry
C3_Witness ==
    /\ PlanReturned
    /\ raw.kind = "object" /\ ~SchemaValid(raw)
    /\ industry # None /\ plan.industry = industry
    /\ plan.notes = <<"Planner JSON parse error: ", "ValidationError">>

\* C4: when the plan has use_satellite = false the run ends with the
\* inapplicable block, and execute_plan, the verification function, the token
\* endpoint and the imagery endpoint are never called
C4_InapplicableMakesNoCalls ==
    (pc # "start" /\ ~plan.use_satellite) =>
        /\ pc \in {"planned", "done"}
        /\ calls.execute = 0 /\ calls.verify = 0
        /\ calls.token = 0 /\ calls.fetch = 0
        /\ pc = "done" => out = InapplicableBlock(ticker, plan)

\* the run has ended with the block although the payload carried targets
C4_Witness ==
    /\ pc = "done"
    /\ ~plan.use_satellite /\ plan.targets # <<>>
    /\ out.kind = "block"


\* an exception left execute_plan
ExecRaised == pc = "raised" /\ error.stage = "observe"

\* execute_plan returned an ObservationResult (now in `result`)
ExecReturned ==
    \/ pc = "exec_returned"
    \/ pc = "done" /\ calls.execute > 0
    \/ pc = "raised" /\ error.stage = "explain"

\* the target has neither (lat, lon) nor a polygon and asks for S2 NDVI
NoGeometryNdvi(t) ==
    /\ t.polygon_geojson = None
    /\ t.lat = None \/ t.lon = None
    /\ \E i \in 1..Len(t.sensors) : \E j \in 1..Len(t.sensors[i].features) :
          t.sensors[i].type = "S2" /\ t.sensors[i].features[j] = NDVI_FEATURE

HintOnlyPlan(p) ==
    /\ p.use_satellite
    /\ Len(p.targets) = 1
    /\ NoGeometryNdvi(p.targets[1])

\* C5 as stated: on a plan with use_satellite = true whose target has no
\* geometry and asks for S2 NDVI, execute_plan does not raise (a failed token
\* request apart) and returns no observations and at least one gap
C5_Original ==
    (calls.execute > 0 /\ HintOnlyPlan(exec_plan)) =>
        /\ ExecRaised => error.at = "auth"
        /\ ExecReturned => (result.observations = <<>> /\ result.gaps # <<>>)

\* the result of the early return of execute_plan
EarlyReturn(p) == ~p.use_satellite \/ p.targets = <<>>

\* C6 as stated: every ObservationResult execute_plan returns has a gap when
\* it has no observation, the early return included
C6_Original ==
    ExecReturned => (result.observations = <<>> => result.gaps # <<>>)

\* C6 amended: an ObservationResult returned after the loop over the targets
\* has a gap when it has no observation; the early return (use_satellite
\* false or no targets) returns no observation and no gap, and explains
\* itself in summary_notes
C6_EmptyObservationsHaveGap ==
    ExecReturned =>
        IF EarlyReturn(exec_plan)
        THEN /\ result.observations = <<>> /\ result.gaps = <<>>
             /\ result.summary_notes # <<>>
        ELSE result.observations = <<>> => result.gaps # <<>>

\* the loop ran over a target, nothing was observed, and the generic gap is there
C6_Witness ==
    /\ pc = "exec_returned"
    /\ exec_plan.use_satellite /\ exec_plan.targets # <<>>
    /\ result.observations = <<>>
    /\ result.gaps = << <<"No usable scenes or features computed">> >>

\* C7 as stated: every plan build_plan returns has no targets when
\* use_satellite is false
C7_Original ==
    pc # "start" => (~plan.use_satellite => plan.targets = <<>>)

EventCount(e) == Cardinality({i \in 1..Len(log) : log[i] = e})

\* the position of the first e in the log, 0 when there is none
EventIndex(e) ==
    IF \E i \in 1..Len(log) : log[i] = e
    THEN MinOf({i \in 1..Len(log) : log[i] = e})
    ELSE 0

Happened(e) == EventIndex(e) > 0

\* C8: the stages run in the order Plan, Observe, Explain, each at most once:
\* execute_plan starts after build_plan returned and receives the plan it
\* returned; summarize and the verification function are called after
\* execute_plan returned and receive the result it returned
C8_StagesInOrder ==
    /\ \A e \in {"build_plan", "execute_plan", "summarize", "verification"} :
          EventCount(e) <= 1
    /\ Happened("execute_plan") =>
          /\ Happened("build_plan:return")
          /\ EventIndex("build_plan:return") < EventIndex("execute_plan")
          /\ exec_plan = plan
    /\ Happened("summarize") =>
          /\ Happened("execute_plan:return")
          /\ EventIndex("execute_plan:return") < EventIndex("summarize")
          /\ EventIndex("summarize") < EventIndex("verification")
          /\ sum_in = result
    /\ (Happened("execute_plan:return") \/ Happened("execute_plan:raise")) =>
          Happened("execute_plan")

\* a whole run: a plan with fallbacks, one observation, a summary
C8_Witness ==
    /\ pc = "done"
    /\ out.kind = "summary"
    /\ plan.fallbacks # <<>>
    /\ Len(sum_in.observations) = 1

\* C9: a token request that fails makes execute_plan raise: no result is
\* returned, nothing is appended to the observations or the gaps, and nothing
\* runs afterwards
C9_AuthFailureIsFatal ==
    [][ /\ pc = "auth" =>
              \/ token' # None /\ pc' = "bbox"
              \/ /\ token' = None
                 /\ pc' = "raised"
                 /\ error'.stage = "observe" /\ error'.at = "auth"
                 /\ result' = result
                 /\ out' = NoOutput
        /\ pc # "raised" ]_vars

\* the token request of the second target failed after the first target had
\* produced its observation
C9_Witness ==
    /\ pc = "raised"
    /\ error.at = "auth"
    /\ Len(result.observations) = 1
    /\ cur.t = 2

\* C10 as stated: no failure of an imagery request makes execute_plan raise;
\* each stack holds at most two samples
C10_Original ==
    /\ ~(ExecRaised /\ error.at = "fetch")
    /\ Len(stack_curr) <= 2 /\ Len(stack_prev) <= 2

\* the target has a polygon or (lat, lon) and asks for S2 NDVI
GeometryNdvi(t) ==
    /\ HasGeometry(t)
    /\ \E i \in 1..Len(t.sensors) : \E j \in 1..Len(t.sensors[i].features) :
          Dispatchable(t.sensors[i], t.sensors[i].features[j])

\* two targets, one with geometry and one without, in either order
MixedGeometryPlan(p) ==
    /\ p.use_satellite
    /\ Len(p.targets) = 2
    /\ \E a, b \in 1..2 :
          a # b /\ GeometryNdvi(p.targets[a]) /\ NoGeometryNdvi(p.targets[b])

\* the name of the target of a mixed plan that has geometry
ValidTargetName(p) ==
    p.targets[CHOOSE a \in 1..2 : GeometryNdvi(p.targets[a])].name

\* C11 as stated: on a plan of two S2 NDVI targets, one with geometry and one
\* without, in either order, the missing geometry does not make execute_plan
\* raise, and the result it returns holds an Observation for the target with
\* geometry and a gap for the other
C11_Original ==
    (calls.execute > 0 /\ MixedGeometryPlan(exec_plan)) =>
        /\ ~(ExecRaised /\ error.at = "bbox")
        /\ ExecReturned =>
              /\ \E i \in 1..Len(result.observations) :
                    result.observations[i].target = ValidTargetName(exec_plan)
              /\ result.gaps # <<>>

\* the samples of a window that have valid pixels
WithValidPixels(stack) == SelectSeq(stack, LAMBDA smp : smp.valid > 0)

\* the sum of the NDVI means (in 1/1000) of the samples with valid pixels
NdviSum(stack) ==
    LET u == WithValidPixels(stack)
    IN  SumSeq([i \in 1..Len(u) |-> TheValue(u[i].val)])

\* v (in 1/100) is percentChange(sc/nc, sp/np) rounded to two decimals: 0 when
\* the previous mean is 0, else within 0.005 of 100 * (c - p) / |p|
IsRoundedPctChange(v, sc, nc, sp, np) ==
    IF sp = 0 THEN v = 0
    ELSE 2 * Abs(v * nc * Abs(sp) - 10000 * (sc * np - sp * nc)) <= nc * Abs(sp)

\* C12: the Observation appended for a dispatched S2 NDVI feature has no value
\* exactly when one of the two windows has no sample with valid pixels (none
\* fetched, or all fully masked); otherwise its value is the percent change of
\* the current window's mean against the previous window's, rounded to two
\* decimals; means of 0.6 and 0.5 give 20.0, and an absent value is not 0
C12_ValueAbsentOrRounded ==
    [][ pc = "compute" =>
          LET o  == result'.observations[Len(result'.observations)]
              uc == WithValidPixels(stack_curr)
              up == WithValidPixels(stack_prev)
          IN  /\ Len(result'.observations) = Len(result.observations) + 1
              /\ o.value = None <=> (uc = <<>> \/ up = <<>>)
              /\ o.value # Some(0) \/ (uc # <<>> /\ up # <<>>)
              /\ o.value # None =>
                    IsRoundedPctChange(TheValue(o.value), NdviSum(stack_curr), Len(uc),
                                       NdviSum(stack_prev), Len(up))
              /\ (uc # <<>> /\ up # <<>>
                  /\ NdviSum(stack_curr) = 600 * Len(uc)
                  /\ NdviSum(stack_prev) = 500 * Len(up)) => o.value = Some(2000) ]_vars

\* two scenes of the current window average to 0.6 (one of them half under
\* cloud), the previous window kept one scene, and the value is 20.0
C12_Witness ==
    /\ pc = "exec_loop"
    /\ Len(result.observations) = 1
    /\ result.observations[1].value = Some(2000)
    /\ result.observations[1].provenance.samples_curr = 2
    /\ result.observations[1].provenance.samples_prev = 1
    /\ result.observations[1].quality = 14 * 150 + 200 * 14

\* C13 as stated: when use_satellite is false or there are no targets,
\* execute_plan returns at once, without a token request or an imagery
\* request, a result with no observations whose summary_notes are the plan's
\* notes, the empty notes included
C13_Original ==
    (calls.execute > 0 /\ pc # "exec_entry" /\ EarlyReturn(exec_plan)) =>
        /\ ExecReturned
        /\ result.observations = <<>>
        /\ result.summary_notes = exec_plan.notes
        /\ calls.token = 0 /\ calls.fetch = 0

\* C13 amended: as above, but the summary_notes are the plan's notes when
\* these are not empty and the text "Satellite not applicable" when they are
C13_EarlyReturnCopiesNotes ==
    (calls.execute > 0 /\ pc # "exec_entry" /\ EarlyReturn(exec_plan)) =>
        /\ ExecReturned
        /\ result.observations = <<>>
        /\ result.summary_notes = IF exec_plan.notes # <<>> THEN exec_plan.notes
                                  ELSE <<"Satellite not applicable">>
        /\ calls.token = 0 /\ calls.fetch = 0

\* use_satellite is true, there is no target, and the plan's notes came back
C13_Witness ==
    /\ pc = "exec_returned"
    /\ exec_plan.use_satellite /\ exec_plan.targets = <<>>
    /\ exec_plan.notes # <<>>
    /\ result.summary_notes = exec_plan.notes
    /\ result.observations = <<>>

\* run_satellite_module returned the summary summarize built
SummaryReturned == pc = "done" /\ out.kind = "summary"

\* C14: the raw_counts of a summary are the number of observations and the
\* number of gaps of the result handed to summarize, whatever the
\* verification function answered, a raw_counts field of its own included
C14_RawCountsFromResult ==
    SummaryReturned =>
        out.raw_counts = [observations |-> Len(sum_in.observations),
                          gaps |-> Len(sum_in.gaps)]

\* the answer that carried raw_counts and a ticker of its own was summarized
\* over a result with two observations
C14_Witness ==
    /\ SummaryReturned
    /\ "raw_counts" \in verdict.keys
    /\ verdict.v.raw_counts = [observations |-> 7, gaps |-> 7]
    /\ out.ticker # verdict.v.ticker
    /\ out.raw_counts = [observations |-> 2, gaps |-> 0]
    /\ Len(sum_in.observations) = 2

\* the verification function answered text that is no JSON, or a JSON object
\* without one of headline, bullets, confidence, attribution
Unusable(o) ==
    \/ o.kind = "text"
    \/ o.kind = "object" /\ ~(SummaryKeys \subseteq o.keys)

\* an exception left summarize, and with it run_satellite_module
SummarizeRaised == pc = "raised" /\ error.stage = "explain"

\* C15: when the verification function answers text that is no JSON, or an
\* object that lacks a required key, summarize raises and the error leaves
\* run_satellite_module: there is no summary and no inapplicable block
C15_UnusableAnswerRaises ==
    Unusable(verdict) =>
        /\ SummarizeRaised
        /\ error.type \in {"JSONDecodeError", "KeyError"}
        /\ out = NoOutput

\* an object without the bullets made summarize raise after an observation
\* had been made
C15_Witness ==
    /\ SummarizeRaised
    /\ verdict.kind = "object" /\ "bullets" \notin verdict.keys
    /\ error.type = "KeyError"
    /\ Len(sum_in.observations) = 1

\* C16 as stated: when the verification function itself raises, the failure
\* is caught: run_satellite_module does not raise and returns a fallback
C16_Original ==
    verdict.kind = "raise" =>
        /\ ~SummarizeRaised
        /\ pc = "done" /\ out # NoOutput

\* C17 as stated: every summary summarize returns has two to four bullets and
\* a confidence between 0 and 1 (here in 1/100); an answer outside these
\* ranges is never returned as a summary
C17_Original ==
    SummaryReturned =>
        /\ Len(out.bullets) >= 2 /\ Len(out.bullets) <= 4
        /\ out.confidence >= 0 /\ out.confidence <= 100

\* run_satellite_module returned the inapplicable block
BlockReturned == pc = "done" /\ out.kind = "block"

\* C18: the inapplicable block has the keys ticker, headline, bullets,
\* confidence and attribution and no other; its ticker is the caller's, its
\* headline "Satellite not applicable", its confidence 0.99, its attribution
\* empty, and its one bullet is the plan's notes, or the fixed text when the
\* plan has no notes
C18_BlockShape ==
    BlockReturned =>
        /\ out.keys = {"ticker", "headline", "bullets", "confidence", "attribution"}
        /\ out.ticker = ticker
        /\ out.headline = "Satellite not applicable"
        /\ out.confidence = 99
        /\ out.attribution = <<>>
        /\ Len(out.bullets) = 1
        /\ plan.notes # <<>> => out.bullets[1] = plan.notes
        /\ plan.notes = <<>> =>
              out.bullets[1] = <<"Pure software/internet industry; skipping satellite.">>

\* a block for a plan without notes, and so with the fixed text
C18_Witness ==
    /\ BlockReturned
    /\ plan.notes = <<>>
    /\ out.bullets = << <<"Pure software/internet industry; skipping satellite.">> >>

\* summarize has been called, and with it the result was serialized
Serialized == Happened("summarize")

QualityReturned == pc = "quality_returned" /\ qcall.ret # None

\* C20: quality_from_valid_ratio lies in [0, 1] (here 0..5600) for every valid
\* ratio and scene age, those outside [0, 1] and the negative ages included;
\* a larger valid ratio never gives less, an older scene never gives more;
\* quality(1, 0) = 1 and quality(0, 14) = 0
C20_QualityBoundedMonotone ==
    QualityReturned =>
        LET v == qcall.valid_ratio
            a == qcall.scene_age_days
            q == TheValue(qcall.ret)
        IN  /\ q >= 0 /\ q <= 5600
            /\ \A v2 \in QualityRatios :
                  v2 >= v => quality_from_valid_ratio(v2, a) >= q
            /\ \A a2 \in QualityAges :
                  a2 >= a => quality_from_valid_ratio(v, a2) <= q
            /\ (v = 200 /\ a = 0) => q = 5600
            /\ (v = 0 /\ a = 14) => q = 0

\* a valid ratio above 1 for a scene from tomorrow: the blend is above 1 and
\* the result is 1
C20_Witness ==
    /\ QualityReturned
    /\ qcall.valid_ratio > 200
    /\ qcall.scene_age_days < 0
    /\ qcall.ret = Some(5600)

\* fetch_news_articles returned its list
NewsReturned == pc = "news_returned"

\* C21 as stated: fetch_news_articles never returns more than max_articles
\* articles, for every max_articles >= 0 and every response, and every
\* article it returns has a summary that is not empty
C21_Original ==
    NewsReturned =>
        /\ Len(news.articles) <= news.max_articles
        /\ \A k \in 1..Len(news.articles) : news.articles[k].summary # <<>>

\* compute_ndvi_change_for_target is running, or an exception left it
InTriple == pc \in {"auth", "bbox", "fetch", "compute"} \/ ExecRaised

\* the imagery requests of the triple in hand: the samples answered so far,
\* and the one whose request raised
RequestsOfTriple ==
    IF ~InTriple THEN 0
    ELSE cur.k + (IF ExecRaised /\ error.at = "fetch" THEN 1 ELSE 0)

\* C22: no external call is made again. The decision function is called
\* exactly once, the verification function at most once (once when summarize
\* runs), the token endpoint at most once for each dispatched triple, and
\* each imagery sample of a triple is requested once, whatever the answer:
\* the requests made are four for every Observation appended, plus one for
\* each sample of the triple in hand that has been answered or has raised
C22_NoRetry ==
    /\ calls.decision = (IF pc = "start" THEN 0 ELSE 1)
    /\ calls.verify = (IF Happened("summarize") THEN 1 ELSE 0)
    /\ calls.token <= Len(result.observations) + (IF InTriple THEN 1 ELSE 0)
    /\ cur.k <= 4
    /\ calls.fetch = 4 * Len(result.observations) + RequestsOfTriple

\* a run with two triples: two token requests and eight imagery requests, of
\* which some were answered with a non-200 status
C22_Witness ==
    /\ pc = "done"
    /\ out.kind = "summary"
    /\ calls.decision = 1 /\ calls.verify = 1
    /\ calls.token = 2 /\ calls.fetch = 8
    /\ sum_in.observations[1].provenance.samples_curr = 1
    /\ sum_in.observations[2].provenance.samples_prev = 0

\* C23: no stage changes what it was given. From its call to its return or
\* its raise, execute_plan leaves the plan (use_satellite, targets, fallbacks,
\* notes) as build_plan returned it, and summarize, returning or raising,
\* leaves the result (observations, gaps, summary_notes) as execute_plan
\* returned it
C23_StagesKeepTheirInput ==
    [][ /\ pc # "start" => plan' = plan
        /\ pc = "planned" => (exec_plan' = plan \/ exec_plan' = exec_plan)
        /\ pc \notin {"start", "planned"} => exec_plan' = exec_plan
        /\ pc = "exec_returned" => (result' = result /\ sum_in' = result) ]_vars

\* summarize raised on a result with one observation of quality 0.5 and one
\* of quality 1, for a plan that carried fallbacks and notes
C23_Witness ==
    /\ SummarizeRaised
    /\ exec_plan = plan /\ plan.fallbacks # <<>> /\ plan.notes # <<>>
    /\ result = sum_in
    /\ Len(result.observations) = 2
    /\ result.observations[1].quality = 2800
    /\ result.observations[2].quality = 5600

\* the (sensor, feature) pair j of sensor spec i of target t has no handler
OtherPair(t, i, j) ==
    ~(t.sensors[i].type = "S2" /\ t.sensors[i].features[j] = NDVI_FEATURE)

\* use_satellite is true and the targets ask for pairs without a handler only
OnlyOtherPairs(p) ==
    /\ p.use_satellite
    /\ p.targets # <<>>
    /\ \A n \in 1..Len(p.targets) :
          \A i \in 1..Len(p.targets[n].sensors) :
             \A j \in 1..Len(p.targets[n].sensors[i].features) :
                OtherPair(p.targets[n], i, j)

\* C24: on a plan with use_satellite = true whose targets ask only for pairs
\* other than (S2, NDVI_mean_30d_vs_prev30d), execute_plan requests no token
\* and no imagery, does not raise, and returns no observation and one gap,
\* the generic one
C24_OtherPairsAreIgnored ==
    (calls.execute > 0 /\ OnlyOtherPairs(exec_plan)) =>
        /\ calls.token = 0 /\ calls.fetch = 0
        /\ ~ExecRaised
        /\ pc \in {"exec_entry", "exec_loop"} \/ ExecReturned
        /\ ExecReturned =>
              /\ result.observations = <<>>
              /\ result.gaps = << <<"No usable scenes or features computed">> >>

\* the NDVI feature under the radar sensor, on a target without geometry,
\* beside a target with roadmap features: both were passed over
C24_Witness ==
    /\ pc = "exec_returned"
    /\ exec_plan.use_satellite
    /\ exec_plan.targets = <<T_road, T_city>>
    /\ result.observations = <<>>
    /\ Len(result.gaps) = 1
    /\ calls.token = 0

\* the number of (sensor, feature) pairs of target t that are dispatched
TriplesOf(t) ==
    Cardinality(UNION { { <<i, j>> : j \in { j \in 1..Len(t.sensors[i].features) :
                                                 ~OtherPair(t, i, j) } } :
                        i \in 1..Len(t.sensors) })

\* the target names of the dispatched triples of a list of targets, in plan
\* order
RECURSIVE TripleNames(_)
TripleNames(targets) ==
    IF targets = <<>> THEN <<>>
    ELSE [k \in 1..TriplesOf(Head(targets)) |-> Head(targets).name]
         \o TripleNames(Tail(targets))

\* C25: when execute_plan goes through the loop and returns (no token
\* request, geometry or imagery request raised), the observations are one
\* for each dispatched (target, sensor, feature) triple, in plan order, each
\* with the name of its target, sensor S2 and the NDVI metric
C25_OneObservationPerTriple ==
    (calls.execute > 0 /\ ExecReturned /\ ~EarlyReturn(exec_plan)) =>
        /\ [k \in 1..Len(result.observations) |-> result.observations[k].target]
              = TripleNames(exec_plan.targets)
        /\ \A k \in 1..Len(result.observations) :
              /\ result.observations[k].sensor = "S2"
              /\ result.observations[k].metric = NDVI_FEATURE

\* a target without a triple and then a target with two: two observations,
\* both for the second target
C25_Witness ==
    /\ pc = "exec_returned"
    /\ exec_plan.targets = <<T_city, T_farm>>
    /\ Len(result.observations) = 2
    /\ result.observations[1].target = "Corn belt"
    /\ result.observations[2].target = "Corn belt"

\* the place where the brace opened at or after i is closed again, d braces
\* being open before i; 0 when it never is
RECURSIVE BlockEnd(_, _, _)
BlockEnd(s, i, d) ==
    IF i > Len(s) THEN 0
    ELSE LET d2 == IF s[i] = "{" THEN d + 1
                   ELSE IF s[i] = "}" THEN d - 1 ELSE d
         IN  IF d2 = 0 THEN i ELSE BlockEnd(s, i + 1, d2)

\* the text has a first {...} block: from its first { to the } that closes it
HasBlock(s) == Find(s, "{") # 0 /\ BlockEnd(s, Find(s, "{"), 0) # 0

FirstBlock(s) == SubSeq(s, Find(s, "{"), BlockEnd(s, Find(s, "{"), 0))

\* _extract_json called on its own has returned
ExtractReturned == pc = "extract_returned" /\ ext.ret # None

\* C26 as stated: _extract_json returns the first {...} block of the text,
\* fenced or not, with or without prose around, also when several blocks
\* follow one another; and applied to what it returned it returns the same
C26_Original ==
    ExtractReturned =>
        /\ HasBlock(ext.text) => TheValue(ext.ret) = FirstBlock(ext.text)
        /\ extract_json(TheValue(ext.ret)) = TheValue(ext.ret)

\* the sum of the valid-pixel shares (in 1/100) of a window's samples that have
\* valid pixels
ValidSum(stack) ==
    LET u == WithValidPixels(stack)
    IN  SumSeq([i \in 1..Len(u) |-> u[i].valid])

\* C27: every Observation has a quality between 0.5 and 1 (2800 and 5600 in
\* 1/5600); the one appended for a dispatched NDVI feature has quality
\* 0.5 + 0.5 * (mean valid-pixel share of the current window's samples with
\* valid pixels), exactly 0.5 when the current window has none, whatever the
\* previous window holds
C27_QualityOfCurrentWindow ==
    [][ /\ \A i \in 1..Len(result'.observations) :
              /\ result'.observations[i].quality >= 2800
              /\ result'.observations[i].quality <= 5600
        /\ pc = "compute" =>
              LET o  == result'.observations[Len(result'.observations)]
                  uc == WithValidPixels(stack_curr)
              IN  /\ Len(result'.observations) = Len(result.observations) + 1
                  /\ uc = <<>> => o.quality = 2800
                  /\ uc # <<>> =>
                        o.quality * Len(uc) = 2800 * Len(uc) + 28 * ValidSum(stack_curr) ]_vars

\* the previous window is empty, so the value is absent, and the current
\* window is cloud-free, so the quality is 1
C27_Witness ==
    /\ pc = "exec_loop"
    /\ Len(result.observations) = 1
    /\ result.observations[1].value = None
    /\ result.observations[1].provenance.samples_prev = 0
    /\ result.observations[1].provenance.samples_curr = 2
    /\ result.observations[1].quality = 5600

\* the notes carry the mark the industry guardrail leaves
MarkedSkipped(p) == \E i \in 1..Len(p.notes) : p.notes[i] = " Skipped due to industry."

\* C28: on a payload the schema accepts, the industry guardrail fires exactly
\* when the caller's industry argument is non-empty and, trimmed and
\* lower-cased, is a skip-list entry; when it does not fire the plan keeps the
\* payload's use_satellite, its (first two) targets, its fallbacks and its
\* industry, whatever industry the payload names
C28_GuardReadsArgumentOnly ==
    (PlanReturned /\ SchemaValid(raw)) =>
        LET fires == /\ industry # None
                     /\ TheValue(industry) # <<>>
                     /\ StrLower(StrStrip(TheValue(industry))) \in INDUSTRY_NO_NEED_SATELLITE
        IN  /\ MarkedSkipped(plan) <=> fires
            /\ plan.industry = ParsedPlan(raw).industry
            /\ fires => /\ ~plan.use_satellite
                        /\ plan.targets = <<>>
                        /\ plan.fallbacks = <<>>
            /\ ~fires => /\ plan.use_satellite = raw.v.use_satellite
                         /\ plan.targets =
                               SubSeq(ReturnedTargets(raw), 1, Min2(2, Len(ReturnedTargets(raw))))
                         /\ plan.fallbacks = ParsedPlan(raw).fallbacks

\* no industry argument, a payload that names the skip-list industry
\* "software" and asks for one target: the plan keeps both
C28_Witness ==
    /\ PlanReturned
    /\ industry = None
    /\ SchemaValid(raw) /\ "industry" \in raw.keys
    /\ raw.v.industry = Some(W_software)
    /\ plan.industry = Some(W_software)
    /\ plan.use_satellite
    /\ plan.targets = <<T_site>>

\* build_plan returned a plan that asks for satellite observation of no target
WantsNoTarget == pc # "start" /\ plan.use_satellite /\ plan.targets = <<>>

\* C29: for a plan with use_satellite = true and no targets the router does
\* not return the inapplicable block: execute_plan is called and returns
\* without a token request, an imagery request or a step of its loop; the
\* verification function is then called exactly once, and the run ends with
\* a summary whose raw_counts are observations = 0 and gaps = 0 when the
\* answer builds one, and with the error summarize raised otherwise
C29_EmptyTargetsReachVerification ==
    WantsNoTarget =>
        /\ ~BlockReturned
        /\ pc \in {"planned", "exec_entry", "exec_returned", "done", "raised"}
        /\ calls.token = 0 /\ calls.fetch = 0
        /\ pc \in {"exec_returned", "done", "raised"} =>
              /\ calls.execute = 1
              /\ result.observations = <<>> /\ result.gaps = <<>>
        /\ pc \in {"done", "raised"} =>
              /\ calls.verify = 1
              /\ EventCount("verification") = 1
              /\ sum_in = result
        /\ pc = "done" =>
              /\ SummaryBuilds(verdict)
              /\ out.kind = "summary"
              /\ out.raw_counts = [observations |-> 0, gaps |-> 0]
        /\ pc = "raised" => (SummarizeRaised /\ ~SummaryBuilds(verdict))

\* a plan with use_satellite = true and no targets led to a summary with both
\* counters at 0, although the answer carried counters of its own
C29_Witness ==
    /\ WantsNoTarget
    /\ SummaryReturned
    /\ calls.execute = 1 /\ calls.verify = 1 /\ calls.fetch = 0
    /\ "raw_counts" \in verdict.keys
    /\ out.raw_counts = [observations |-> 0, gaps |-> 0]

\* C30: whatever run_satellite_module returns, the inapplicable block or a
\* summary, has a ticker field, and it is the caller's ticker argument,
\* whatever ticker the decision payload (and so the plan and the result) or
\* the verification payload names
C30_TickerIsTheCallers ==
    pc = "done" =>
        /\ out.kind \in {"block", "summary"}
        /\ "ticker" \in out.keys
        /\ out.ticker = ticker

\* the plan and the result name another instrument, the verification payload
\* carries a ticker of its own, and the summary names the caller's
C30_Witness ==
    /\ SummaryReturned
    /\ plan.ticker # ticker
    /\ sum_in.ticker = plan.ticker
    /\ "ticker" \in verdict.keys /\ verdict.v.ticker # ticker
    /\ out.ticker = ticker

=============================================================================
